---------------------------- MODULE Spec2Model ----------------------------
(***************************************************************************)
(* Model of the llm-chat application (src/app/main.py).                    *)
(*                                                                         *)
(*   SpecTrunc  the token-budget pipeline of query_llm: estimate_tokens,  *)
(*              truncate_message_history walked one loop iteration at a   *)
(*              time, and the payload assembled from its result.          *)
(*   Spec       the web application: the chat_messages table, POST /chat  *)
(*              (handle_input) and GET /process (process_llm, query_llm)  *)
(*              with the requests interleaving at their await points.     *)
(*                                                                         *)
(* A text is a sequence of code points, each written as the one-character *)
(* string itself or, where TLA+ has no way to write it, as "U+XXXX".        *)
(*                                                                         *)
(* Whether the tokenizer raises is decided anew in every call of           *)
(* estimate_tokens: the calls take the outcome as a parameter, `raised`.   *)
(***************************************************************************)
EXTENDS Integers, Sequences, FiniteSets, TLC

VARIABLES
    tiktoken,            \* the vocabulary the tokenizer loads: the number of
                         \* tokens encode() gives for each text it accepts
    \* ---- one call of the budget pipeline (SpecTrunc) ----
    messages,            \* truncate_message_history: parameter messages (oldest first)
    max_tokens,          \* truncate_message_history: parameter max_tokens
    user_input,          \* truncate_message_history: parameter user_input
    tpc,                 \* position in the pipeline
    system_tokens,       \* local system_tokens
    user_input_tokens,   \* local user_input_tokens
    available_tokens,    \* local available_tokens
    truncated_messages,  \* local truncated_messages
    current_tokens,      \* local current_tokens
    idx,                 \* position of the walk of reversed(messages); 0 = exhausted
    result,              \* the value truncate_message_history returned
    payload,             \* payload["messages"] of query_llm
    oracle,              \* bookkeeping: for each estimate_tokens call of this run of
                         \* truncate_message_history, in order, whether the tokenizer
                         \* was made to raise
    \* ---- the web application (Spec) ----
    chat_messages,       \* the table, in timestamp order: rows [id, role, message, reply_to]
                         \* (reply_to is bookkeeping, not a column: the user row an LLM
                         \* row was produced for)
    req,                 \* the GET /process requests in flight: position and locals
    post                 \* the POST /chat request in flight: position and status

truncVars == <<messages, max_tokens, user_input, tpc, system_tokens, user_input_tokens,
               available_tokens, truncated_messages, current_tokens, idx, result,
               payload, oracle>>

appVars == <<chat_messages, req, post>>

vars == <<tiktoken, truncVars, appVars>>

-----------------------------------------------------------------------------
(* Bounds of the model *)

MaxHist == 3             \* longest history handed to truncate_message_history
MaxRows == 3             \* rows the table may hold
NumProcs == 1            \* GET /process requests that may be in flight together

(* Program constants *)

MESSAGE_OVERHEAD == 10   \* "+ 10" per message
HEADROOM == 512          \* "+ 512" reserved for the response
FALLBACK_DIVISOR == 4    \* len(text) // 4
FETCH_LIMIT == 21        \* .limit(21)
HISTORY_LIMIT == 20      \* len(filtered_rows) >= 20
DEFAULT_MAX_TOKENS == 4096  \* get_model_info's fallback "max_tokens"

-----------------------------------------------------------------------------
(* Texts *)

Rep(c, n) == [i \in 1..n |-> c]

SYSTEM_PROMPT ==
    <<"Y","o","u"," ","a","r","e"," ","a"," ","h","e","l","p","f","u","l"," ",
      "a","s","s","i","s","t","a","n","t",".">>

\* The code points for which str.isspace() holds.
Whitespace ==
    {"\t", "\n", "U+000B", "\f", "\r", "U+001C", "U+001D", "U+001E", "U+001F", " ",
     "U+0085", "U+00A0", "U+1680", "U+2000", "U+2001", "U+2002", "U+2003", "U+2004",
     "U+2005", "U+2006", "U+2007", "U+2008", "U+2009", "U+200A", "U+2028", "U+2029",
     "U+202F", "U+205F", "U+3000"}

UpperToLower ==
    [c \in {"A","B","C","D","E","F","G","H","I","J","K","L","M",
            "N","O","P","Q","R","S","T","U","V","W","X","Y","Z"} |->
        CASE c = "A" -> "a" [] c = "B" -> "b" [] c = "C" -> "c" [] c = "D" -> "d"
          [] c = "E" -> "e" [] c = "F" -> "f" [] c = "G" -> "g" [] c = "H" -> "h"
          [] c = "I" -> "i" [] c = "J" -> "j" [] c = "K" -> "k" [] c = "L" -> "l"
          [] c = "M" -> "m" [] c = "N" -> "n" [] c = "O" -> "o" [] c = "P" -> "p"
          [] c = "Q" -> "q" [] c = "R" -> "r" [] c = "S" -> "s" [] c = "T" -> "t"
          [] c = "U" -> "u" [] c = "V" -> "v" [] c = "W" -> "w" [] c = "X" -> "x"
          [] c = "Y" -> "y" [] c = "Z" -> "z"]

\* sub in s
Contains(s, sub) ==
    \E i \in 1..(Len(s) - Len(sub) + 1) : SubSeq(s, i, i + Len(sub) - 1) = sub

-----------------------------------------------------------------------------
(* estimate_tokens *)

\* The special tokens of cl100k_base; encode() refuses a text that holds one.
SpecialTokens ==
    {<<"<","|","e","n","d","o","f","t","e","x","t","|",">">>,
     <<"<","|","f","i","m","_","p","r","e","f","i","x","|",">">>,
     <<"<","|","f","i","m","_","m","i","d","d","l","e","|",">">>,
     <<"<","|","f","i","m","_","s","u","f","f","i","x","|",">">>,
     <<"<","|","e","n","d","o","f","p","r","o","m","p","t","|",">">>}

\* A special token stands somewhere in the text, whole and in its own case.
HasSpecialToken(text) ==
    \E i \in 1..Len(text) :
        /\ text[i] = "<"
        /\ \E tok \in SpecialTokens :
               /\ i + Len(tok) - 1 <= Len(text)
               /\ SubSeq(text, i, i + Len(tok) - 1) = tok

\* The numbers of tokens a byte-level vocabulary can give for a text of
\* one-byte characters: none for the empty text, otherwise at least one and
\* at most one per character.
TokenCounts(text) == IF text = <<>> THEN {0} ELSE 1..Len(text)

\* What cl100k_base gives for a text: six tokens for the system prompt ("You",
\* " are", " a", " helpful", " assistant", "."); for any other text the
\* vocabulary's merges are outside the repository and every count that
\* TokenCounts allows is possible.
VocabularyCounts(text) == IF text = SYSTEM_PROMPT THEN {6} ELSE TokenCounts(text)

\* The vocabularies cl100k_base may be on the given texts: one count per text.
RECURSIVE Vocabularies(_)
Vocabularies(texts) ==
    IF texts = {} THEN {[t \in {} |-> 0]}
    ELSE LET text == CHOOSE t \in texts : TRUE
         IN  {[t \in texts |-> IF t = text THEN n ELSE v[t]] :
                 v \in Vocabularies(texts \ {text}), n \in VocabularyCounts(text)}

\* tiktoken.get_encoding("cl100k_base") and encoding.encode(text).  The
\* library is outside the repository.  The call raises when the environment
\* makes it (`raised`: the encoding cannot be loaded) and on a text that holds
\* a special token; otherwise it returns the tokens the vocabulary has for
\* the text.
Encode(text, raised) ==
    IF raised \/ HasSpecialToken(text)
    THEN [raised |-> TRUE, tokens |-> 0]
    ELSE [raised |-> FALSE, tokens |-> tiktoken[text]]

FallbackCeil(text) == (Len(text) + FALLBACK_DIVISOR - 1) \div FALLBACK_DIVISOR

\* return len(text) // 4
Fallback(text) == Len(text) \div FALLBACK_DIVISOR

\* try: return len(encoding.encode(text))  except Exception: pass
\* return len(text) // 4
estimate_tokens(text, raised) ==
    LET r == Encode(text, raised)
    IN  IF r.raised THEN Fallback(text) ELSE r.tokens

\* estimate_tokens(message.get("content", "")) + 10
message_tokens(message, raised) ==
    estimate_tokens(message.content, raised) + MESSAGE_OVERHEAD

-----------------------------------------------------------------------------
(* truncate_message_history *)

\* The reservation that leaves the headroom out.
ReservedNoHeadroom(sys_tokens, input_tokens) == sys_tokens + input_tokens

\* The reservation that leaves the user input out.
ReservedNoInput(sys_tokens, input_tokens) == sys_tokens + HEADROOM

\* system_tokens + user_input_tokens + 512
reserved_tokens(sys_tokens, input_tokens) == sys_tokens + input_tokens + HEADROOM

\* The loop body with "continue" where the code has "break".
LoopBodySkip(st, message, available, raised) ==
    IF st.current + message_tokens(message, raised) <= available
    THEN [truncated |-> <<message>> \o st.truncated,
          current   |-> st.current + message_tokens(message, raised),
          brk       |-> FALSE]
    ELSE st

\* The loop body with append where the code has insert(0, message).
LoopBodyAppend(st, message, available, raised) ==
    IF st.current + message_tokens(message, raised) <= available
    THEN [truncated |-> Append(st.truncated, message),
          current   |-> st.current + message_tokens(message, raised),
          brk       |-> FALSE]
    ELSE [st EXCEPT !.brk = TRUE]

\* The loop body with "<" where the code has "<=".
LoopBodyStrict(st, message, available, raised) ==
    IF st.current + message_tokens(message, raised) < available
    THEN [truncated |-> <<message>> \o st.truncated,
          current   |-> st.current + message_tokens(message, raised),
          brk       |-> FALSE]
    ELSE [st EXCEPT !.brk = TRUE]

\* The loop body that forgets to add the message's cost to the running total.
LoopBodyNoCount(st, message, available, raised) ==
    IF st.current + message_tokens(message, raised) <= available
    THEN [truncated |-> <<message>> \o st.truncated,
          current   |-> st.current,
          brk       |-> FALSE]
    ELSE [st EXCEPT !.brk = TRUE]

\* One iteration of "for message in reversed(messages)"; brk = the break was
\* taken; raised = the tokenizer's outcome in this iteration's estimate.
LoopBody(st, message, available, raised) ==
    IF st.current + message_tokens(message, raised) <= available
    THEN [truncated |-> <<message>> \o st.truncated,
          current   |-> st.current + message_tokens(message, raised),
          brk       |-> FALSE]
    ELSE [st EXCEPT !.brk = TRUE]

\* The loop from position i of the walk (msgs[i] is the next message) to its
\* end; o[n] is the tokenizer's outcome in the call's n-th estimate (the
\* system prompt, the user input, then the messages newest first).
RECURSIVE Walk(_, _, _, _, _)
Walk(msgs, i, st, available, o) ==
    IF i = 0 \/ st.brk THEN st
    ELSE Walk(msgs, i - 1,
              LoopBody(st, msgs[i], available, o[Len(msgs) - i + 3]), available, o)

\* The whole function, as query_llm calls it, under the outcomes o.
truncate_message_history(msgs, maxTokens, input, o) ==
    LET sys_tokens   == estimate_tokens(SYSTEM_PROMPT, o[1]) + MESSAGE_OVERHEAD
        input_tokens == estimate_tokens(input, o[2]) + MESSAGE_OVERHEAD
        available    == maxTokens - reserved_tokens(sys_tokens, input_tokens)
    IN  IF available <= 0 THEN <<>>
        ELSE Walk(msgs, Len(msgs),
                  [truncated |-> <<>>, current |-> 0, brk |-> FALSE], available, o).truncated

\* What the loop may return from position i of the walk on, whichever way the
\* tokenizer turns out in each iteration.
RECURSIVE WalkResults(_, _, _, _)
WalkResults(msgs, i, st, available) ==
    IF i = 0 \/ st.brk THEN {st.truncated}
    ELSE UNION {WalkResults(msgs, i - 1, LoopBody(st, msgs[i], available, raised),
                            available) : raised \in BOOLEAN}

\* What the whole function may return, whichever way the tokenizer turns out
\* in each of the call's estimates.
TruncatedHistories(msgs, maxTokens, input) ==
    UNION {IF maxTokens - reserved_tokens(sys_tokens, input_tokens) <= 0
           THEN {<<>>}
           ELSE WalkResults(msgs, Len(msgs),
                            [truncated |-> <<>>, current |-> 0, brk |-> FALSE],
                            maxTokens - reserved_tokens(sys_tokens, input_tokens)) :
              sys_tokens \in {estimate_tokens(SYSTEM_PROMPT, raised) + MESSAGE_OVERHEAD :
                                 raised \in BOOLEAN},
              input_tokens \in {estimate_tokens(input, raised) + MESSAGE_OVERHEAD :
                                   raised \in BOOLEAN}}

\* The outcomes a call on n messages may meet.
Oracles(n) == [1..(n + 2) -> BOOLEAN]

\* payload["messages"]
Payload(final_history, input) ==
    <<[role |-> "system", content |-> SYSTEM_PROMPT]>>
    \o final_history
    \o <<[role |-> "user", content |-> input]>>

-----------------------------------------------------------------------------
(* query_llm: the history read from the table *)

MinOf2(a, b) == IF a <= b THEN a ELSE b

Reverse(s) == [i \in 1..Len(s) |-> s[Len(s) - i + 1]]

\* select(chat_messages).order_by(timestamp.desc()).limit(n): newest first
FetchRecent(table, n) ==
    [i \in 1..MinOf2(n, Len(table)) |-> table[Len(table) - i + 1]]

\* Lines 129-135: "for row in rows" from rows[i] on, filtered_rows so far.
RECURSIVE FilterRows(_, _, _, _)
FilterRows(rows, i, filtered, input) ==
    IF i > Len(rows) THEN filtered
    ELSE IF Len(filtered) = 0 /\ rows[i].role = "user" /\ rows[i].message = input
         THEN FilterRows(rows, i + 1, filtered, input)
         ELSE IF Len(filtered) + 1 >= HISTORY_LIMIT
              THEN Append(filtered, rows[i])
              ELSE FilterRows(rows, i + 1, Append(filtered, rows[i]), input)

\* Lines 137-145: reversed(filtered_rows) as {role, content}, "LLM" sent as "assistant".
MessageHistory(filtered) ==
    LET r == Reverse(filtered)
    IN  [i \in 1..Len(r) |->
            [role    |-> IF r[i].role = "LLM" THEN "assistant" ELSE r[i].role,
             content |-> r[i].message]]

-----------------------------------------------------------------------------
(* query_llm: the response clean-up and the error reply *)


RECURSIVE LStrip(_)
LStrip(s) == IF s # <<>> /\ Head(s) \in Whitespace THEN LStrip(Tail(s)) ELSE s

RECURSIVE RStrip(_)
RStrip(s) ==
    IF s # <<>> /\ s[Len(s)] \in Whitespace THEN RStrip(SubSeq(s, 1, Len(s) - 1)) ELSE s

\* str.strip()
Strip(s) == RStrip(LStrip(s))

\* str.replace(a + b, r) for a two-character pattern
RECURSIVE Replace2(_, _, _, _)
Replace2(s, a, b, r) ==
    IF Len(s) < 2 THEN s
    ELSE IF s[1] = a /\ s[2] = b
         THEN <<r>> \o Replace2(SubSeq(s, 3, Len(s)), a, b, r)
         ELSE <<s[1]>> \o Replace2(Tail(s), a, b, r)

\* Lines 186-189
CleanResponse(raw) ==
    LET stripped == Strip(raw)
        unquoted == IF stripped # <<>> /\ stripped[1] = "\"" /\ stripped[Len(stripped)] = "\""
                    THEN SubSeq(stripped, 2, Len(stripped) - 1)
                    ELSE stripped
    IN  Replace2(Replace2(unquoted, "\\", "n", "\n"), "\\", "\"", "\"")

TIMEOUT == <<"t", "i", "m", "e", "o", "u", "t">>

\* "timeout" in e, without .lower().
HasTimeoutCaseSensitive(e) == Contains(e, TIMEOUT)

\* "timeout" in str(e).lower().  Of all code points only A-Z lower to a letter
\* of "timeout" standing alone (U+0130 lowers to "i" followed by U+0307, which
\* no "m" can follow directly), so the test holds exactly when seven adjacent
\* code points of e are those letters in either ASCII case.
HasTimeout(e) ==
    \E i \in 1..(Len(e) - Len(TIMEOUT) + 1) :
        \A j \in 1..Len(TIMEOUT) :
            \/ e[i + j - 1] = TIMEOUT[j]
            \/ /\ e[i + j - 1] \in DOMAIN UpperToLower
               /\ UpperToLower[e[i + j - 1]] = TIMEOUT[j]

\* Lines 197-202: the string returned for the exception whose str() is e.
ErrorReply(e) ==
    IF HasTimeout(e)
    THEN [kind |-> "timed_out", text |-> <<>>]
    ELSE [kind |-> "unavailable", text |-> e]

-----------------------------------------------------------------------------
(* The requests *)

Procs == 1..NumProcs

NoReply == [kind |-> "none", text |-> <<>>]

\* A GET /process slot with no request in it.
IdleRequest ==
    [pc |-> "idle", user_input |-> <<>>, cur_id |-> 0, rows |-> <<>>,
     message_history |-> <<>>, payload |-> <<>>,
     llm_response |-> <<>>, error |-> <<>>, ret |-> NoReply, status |-> 0]

\* No POST /chat request in flight.
IdlePost == [pc |-> "idle", status |-> 0]

-----------------------------------------------------------------------------
(* SpecTrunc: the inputs of one call, drawn from bounded sets *)

\* EndOfText is a special token of cl100k_base: encode() raises on every text
\* that holds it, so the estimate of such a text is the fallback's whatever
\* the vocabulary.
EndOfText == <<"<","|","e","n","d","o","f","t","e","x","t","|",">">>

TextA == EndOfText \o Rep("a", 147)
TextB == EndOfText \o Rep("b", 67)
TextC == EndOfText \o Rep("c", 747)
TextD == <<"a", "<", "b">>

MsgA == [role |-> "user", content |-> TextA]
MsgB == [role |-> "assistant", content |-> TextB]
MsgC == [role |-> "user", content |-> TextC]
MsgD == [role |-> "assistant", content |-> TextD]

HistoryMessages == {MsgA, MsgB, MsgC, MsgD}

Histories == UNION {[1..n -> HistoryMessages] : n \in 0..MaxHist}

\* A special token cut short after four characters, which encode() accepts.
EndOfTextCut == SubSeq(EndOfText, 1, 4)

\* A long input that holds a special token after its first character.
LongInput == <<"<">> \o EndOfText \o Rep("u", 86)

UserInputs == {EndOfTextCut, EndOfText, LongInput}

MaxTokenValues == {-1, 0, 541, 551, 552, 641, 791}

\* The texts one call estimates on which encode() can succeed.
EncodableTexts(msgs, input) ==
    {t \in {SYSTEM_PROMPT, input} \cup {msgs[i].content : i \in 1..Len(msgs)} :
        ~HasSpecialToken(t)}

TruncInit ==
    /\ messages \in Histories
    /\ max_tokens \in MaxTokenValues
    /\ user_input \in UserInputs
    /\ tiktoken \in Vocabularies(EncodableTexts(messages, user_input))
    /\ tpc = "call"
    /\ system_tokens = 0
    /\ user_input_tokens = 0
    /\ available_tokens = 0
    /\ truncated_messages = <<>>
    /\ current_tokens = 0
    /\ idx = 0
    /\ result = <<>>
    /\ payload = <<>>
    /\ oracle = <<>>
    /\ chat_messages = <<>>
    /\ req = [p \in Procs |-> IdleRequest]
    /\ post = IdlePost

\* Lines 65-77: the reservation, the early return, the loop's initial state.
\* rs, ru: the environment makes the tokenizer raise on the system prompt, on
\* the user input; oracle keeps whether it raised.
TruncEnter(rs, ru) ==
    /\ tpc = "call"
    /\ system_tokens' = estimate_tokens(SYSTEM_PROMPT, rs) + MESSAGE_OVERHEAD
    /\ user_input_tokens' = estimate_tokens(user_input, ru) + MESSAGE_OVERHEAD
    /\ available_tokens' = max_tokens - reserved_tokens(system_tokens', user_input_tokens')
    /\ IF available_tokens' <= 0
       THEN /\ result' = <<>>
            /\ tpc' = "returned"
            /\ idx' = 0
       ELSE /\ result' = result
            /\ tpc' = "loop"
            /\ idx' = Len(messages)
    /\ truncated_messages' = <<>>
    /\ current_tokens' = 0
    /\ oracle' = <<Encode(SYSTEM_PROMPT, rs).raised, Encode(user_input, ru).raised>>
    /\ UNCHANGED appVars
    /\ UNCHANGED <<tiktoken, messages, max_tokens, user_input, payload>>

\* Lines 79-86: one iteration; a break falls through to the return of line 88.
\* r: the environment makes the tokenizer raise on this message.
TruncLoop(r) ==
    /\ tpc = "loop"
    /\ idx >= 1
    /\ LET st == LoopBody([truncated |-> truncated_messages,
                           current |-> current_tokens, brk |-> FALSE],
                          messages[idx], available_tokens, r)
       IN  /\ truncated_messages' = st.truncated
           /\ current_tokens' = st.current
           /\ IF st.brk
              THEN /\ tpc' = "returned"
                   /\ result' = st.truncated
                   /\ idx' = idx
              ELSE /\ tpc' = "loop"
                   /\ result' = result
                   /\ idx' = idx - 1
    /\ oracle' = Append(oracle, Encode(messages[idx].content, r).raised)
    /\ UNCHANGED appVars
    /\ UNCHANGED <<tiktoken, messages, max_tokens, user_input, system_tokens,
                   user_input_tokens, available_tokens, payload>>

\* Line 88 after the loop ran out of messages.
TruncReturn ==
    /\ tpc = "loop"
    /\ idx = 0
    /\ result' = truncated_messages
    /\ tpc' = "returned"
    /\ UNCHANGED appVars
    /\ UNCHANGED <<tiktoken, messages, max_tokens, user_input, system_tokens,
                   user_input_tokens, available_tokens, truncated_messages,
                   current_tokens, idx, payload, oracle>>

\* Lines 167-176: final_history = truncated_history; the payload's messages.
BuildPayload ==
    /\ tpc = "returned"
    /\ payload' = Payload(result, user_input)
    /\ tpc' = "sent"
    /\ UNCHANGED appVars
    /\ UNCHANGED <<tiktoken, messages, max_tokens, user_input, system_tokens,
                   user_input_tokens, available_tokens, truncated_messages,
                   current_tokens, idx, result, oracle>>

TruncNext ==
    \/ \E rs \in BOOLEAN, ru \in BOOLEAN : TruncEnter(rs, ru)
    \/ \E r \in BOOLEAN : TruncLoop(r)
    \/ TruncReturn
    \/ BuildPayload

SpecTrunc == TruncInit /\ [][TruncNext]_vars

-----------------------------------------------------------------------------
(* Spec: the web application *)

\* What the form may post.
ChatInputs == {<<"h">>, <<"y">>}

\* data["choices"][0]["message"]["content"] as LM Studio may send it: between
\* white space that is not ASCII, and quoted with an escaped newline and
\* blanks around it.
RawResponses == {<<"U+000B", "o", "U+00A0", "U+001C">>,
                 <<" ", "\"", "\\", "n", "\"", " ">>}

\* str(e) of the exceptions the database and the HTTP client may raise.
DbErrors == {<<"c", "l", "o", "s", "e", "d">>}
HttpErrors == {<<"R", "e", "a", "d", "T", "i", "m", "e", "o", "u", "t">>,
               <<"t", "U+0130", "m", "e", "o", "u", "t">>,
               <<"t", "i", "m", "e", "d", " ", "o", "u", "t">>}

\* model_info["max_tokens"] when it is a number: the default, or the model's
\* own figure.
ModelMaxTokens == {DEFAULT_MAX_TOKENS, 560}

\* model_info["max_tokens"] when the model's entry gives something else: the
\* name of its Python type.
ModelMaxTokensBad ==
    {<<"N", "o", "n", "e", "T", "y", "p", "e">>, <<"s", "t", "r">>}

\* str(e) of the TypeError that "max_tokens - reserved_tokens" raises on a
\* max_tokens of the type t.
OperandError(t) ==
    <<"u","n","s","u","p","p","o","r","t","e","d"," ","o","p","e","r","a","n","d"," ",
      "t","y","p","e","(","s",")"," ","f","o","r"," ","-",":"," ","'">>
    \o t \o <<"'"," ","a","n","d"," ","'","i","n","t","'">>

\* The texts the application estimates: the system prompt, what the form
\* posts and what the clean-up leaves of a response.  Each has one character
\* but the system prompt, so that the vocabulary is known on all of them.
AppTexts ==
    {SYSTEM_PROMPT} \cup ChatInputs \cup {CleanResponse(raw) : raw \in RawResponses}

\* The state after startup (the table is emptied).  GET / (serve_form) only
\* reads the table and is left out.
Init ==
    /\ tiktoken \in Vocabularies(AppTexts)
    /\ messages = <<>>
    /\ max_tokens = 0
    /\ user_input = <<>>
    /\ tpc = "off"
    /\ system_tokens = 0
    /\ user_input_tokens = 0
    /\ available_tokens = 0
    /\ truncated_messages = <<>>
    /\ current_tokens = 0
    /\ idx = 0
    /\ result = <<>>
    /\ payload = <<>>
    /\ oracle = <<>>
    /\ chat_messages = <<>>
    /\ req = [p \in Procs |-> IdleRequest]
    /\ post = IdlePost

\* chat_messages.insert().values(role=..., message=...)
Insert(table, role, message, reply_to) ==
    Append(table, [id |-> Len(table) + 1, role |-> role, message |-> message,
                   reply_to |-> reply_to])

\* Positions of the user rows.
UserRows(table) == {i \in 1..Len(table) : table[i].role = "user"}

\* select ... where role == "user" order_by timestamp desc limit 1
LatestUserRow(table) ==
    table[CHOOSE i \in UserRows(table) : \A j \in UserRows(table) : j <= i]

\* POST /chat, line 282: the user row is inserted.
HandleInput(text) ==
    /\ post.pc = "idle"
    /\ Len(chat_messages) < MaxRows
    /\ chat_messages' = Insert(chat_messages, "user", text, 0)
    /\ post' = [post EXCEPT !.pc = "render"]
    /\ UNCHANGED <<tiktoken, truncVars, req>>

\* POST /chat, lines 282 and 325-326: the insert raised.
HandleInputFail ==
    /\ post.pc = "idle"
    /\ post' = [pc |-> "responded", status |-> 500]
    /\ UNCHANGED <<tiktoken, truncVars, req, chat_messages>>

\* POST /chat, lines 285-323: the rows are read and the page is returned.
HandleInputRender ==
    /\ post.pc = "render"
    /\ post' = [pc |-> "responded", status |-> 200]
    /\ UNCHANGED <<tiktoken, truncVars, req, chat_messages>>

\* POST /chat, lines 286 and 325-326: fetch_all raised; the row stays.
HandleInputRenderFail ==
    /\ post.pc = "render"
    /\ post' = [pc |-> "responded", status |-> 500]
    /\ UNCHANGED <<tiktoken, truncVars, req, chat_messages>>

\* The response has been sent; the next POST /chat may come.
HandleInputDone ==
    /\ post.pc = "responded"
    /\ post' = IdlePost
    /\ UNCHANGED <<tiktoken, truncVars, req, chat_messages>>

\* GET /process, lines 331-345: the latest user row is read.
ProcessFetch(p) ==
    /\ req[p].pc = "idle"
    /\ IF UserRows(chat_messages) = {}
       THEN req' = [req EXCEPT ![p].pc = "responded", ![p].status = 200]
       ELSE req' = [req EXCEPT ![p].pc = "query",
                               ![p].user_input = LatestUserRow(chat_messages).message,
                               ![p].cur_id = LatestUserRow(chat_messages).id]
    /\ UNCHANGED <<tiktoken, truncVars, chat_messages, post>>

\* GET /process, lines 359-361: fetch_one raised.
ProcessFetchFail(p) ==
    /\ req[p].pc = "idle"
    /\ req' = [req EXCEPT ![p].pc = "responded", ![p].status = 500]
    /\ UNCHANGED <<tiktoken, truncVars, chat_messages, post>>

\* query_llm, lines 125-145: the recent rows are read and made the history.
QueryFetch(p) ==
    /\ req[p].pc = "query"
    /\ LET rows == FetchRecent(chat_messages, FETCH_LIMIT)
       IN  req' = [req EXCEPT
                      ![p].pc = "model_info",
                      ![p].rows = rows,
                      ![p].message_history =
                          MessageHistory(FilterRows(rows, 1, <<>>, req[p].user_input))]
    /\ UNCHANGED <<tiktoken, truncVars, chat_messages, post>>

\* query_llm's except clause, lines 197-202, and process_llm's return after it.
Failed(p, e) ==
    req' = [req EXCEPT ![p] = [IdleRequest EXCEPT !.pc = "responded", !.error = e,
                                                  !.ret = ErrorReply(e), !.status = 200]]

\* query_llm, line 126: fetch_all raised.
QueryFetchFail(p, e) ==
    /\ req[p].pc = "query"
    /\ Failed(p, e)
    /\ UNCHANGED <<tiktoken, truncVars, chat_messages, post>>

\* query_llm, lines 150-176: the model's limit, the truncation, the payload.
GetModelInfo(p, m) ==
    /\ req[p].pc = "model_info"
    /\ \E truncated_history \in
              TruncatedHistories(req[p].message_history, m, req[p].user_input) :
           req' = [req EXCEPT
                      ![p].pc = "post",
                      ![p].rows = <<>>,
                      ![p].message_history = <<>>,
                      ![p].payload = Payload(truncated_history, req[p].user_input)]
    /\ UNCHANGED <<tiktoken, truncVars, chat_messages, post>>

\* query_llm, lines 150-155 and 67-71: max_tokens of the type t is no number,
\* and the subtraction in truncate_message_history raises.
GetModelInfoBad(p, t) ==
    /\ req[p].pc = "model_info"
    /\ Failed(p, OperandError(t))
    /\ UNCHANGED <<tiktoken, truncVars, chat_messages, post>>

\* query_llm, lines 179-189: the model answered; the answer is cleaned up.
PostOk(p, raw) ==
    /\ req[p].pc = "post"
    /\ req' = [req EXCEPT ![p].pc = "save", ![p].payload = <<>>,
                          ![p].user_input = <<>>,
                          ![p].llm_response = CleanResponse(raw)]
    /\ UNCHANGED <<tiktoken, truncVars, chat_messages, post>>

\* query_llm, lines 179-183: the request, the status or the body raised.
PostFail(p, e) ==
    /\ req[p].pc = "post"
    /\ Failed(p, e)
    /\ UNCHANGED <<tiktoken, truncVars, chat_messages, post>>

\* query_llm, lines 192-195: the LLM row is inserted and the answer returned.
SaveOk(p) ==
    /\ req[p].pc = "save"
    /\ Len(chat_messages) < MaxRows
    /\ chat_messages' = Insert(chat_messages, "LLM", req[p].llm_response, req[p].cur_id)
    /\ req' = [req EXCEPT ![p] = [IdleRequest EXCEPT
                  !.pc = "responded", !.status = 200,
                  !.ret = [kind |-> "response", text |-> req[p].llm_response]]]
    /\ UNCHANGED <<tiktoken, truncVars, post>>

\* query_llm, line 192: the insert raised.
SaveFail(p, e) ==
    /\ req[p].pc = "save"
    /\ Failed(p, e)
    /\ UNCHANGED <<tiktoken, truncVars, chat_messages, post>>

\* The response has been sent; the slot is free for the next GET /process.
Finish(p) ==
    /\ req[p].pc = "responded"
    /\ req' = [req EXCEPT ![p] = IdleRequest]
    /\ UNCHANGED <<tiktoken, truncVars, chat_messages, post>>

Next ==
    \/ \E text \in ChatInputs : HandleInput(text)
    \/ HandleInputFail
    \/ HandleInputRender
    \/ HandleInputRenderFail
    \/ HandleInputDone
    \/ \E p \in Procs : ProcessFetch(p)
    \/ \E p \in Procs : ProcessFetchFail(p)
    \/ \E p \in Procs : QueryFetch(p)
    \/ \E p \in Procs, e \in DbErrors : QueryFetchFail(p, e)
    \/ \E p \in Procs, m \in ModelMaxTokens : GetModelInfo(p, m)
    \/ \E p \in Procs, t \in ModelMaxTokensBad : GetModelInfoBad(p, t)
    \/ \E p \in Procs, raw \in RawResponses : PostOk(p, raw)
    \/ \E p \in Procs, e \in HttpErrors : PostFail(p, e)
    \/ \E p \in Procs : SaveOk(p)
    \/ \E p \in Procs, e \in DbErrors : SaveFail(p, e)
    \/ \E p \in Procs : Finish(p)

Spec == Init /\ [][Next]_vars

-----------------------------------------------------------------------------
(* Properties of the budget pipeline (SpecTrunc) *)

Returned == tpc \in {"returned", "sent"}

Suffix(s, k) == SubSeq(s, Len(s) - k + 1, Len(s))

IsSuffix(s, t) == Len(s) <= Len(t) /\ s = Suffix(t, Len(s))

MaxOf(S) == CHOOSE x \in S : \A y \in S : y <= x

\* The cost of a text as the claims state it: its estimate plus 10, the
\* estimate being the one the call obtained (raised: from the fallback).
Cost(text, raised) == estimate_tokens(text, raised) + 10

\* The costs the call obtained for the system prompt and the user input.
SystemCost == Cost(SYSTEM_PROMPT, oracle[1])
InputCost == Cost(user_input, oracle[2])

\* available as the claims state it.
Available == max_tokens - SystemCost - InputCost - 512

\* The messages the walk has estimated so far, the j-th of them (newest
\* first), and the cost the call obtained for it.
Walked == Len(oracle) - 2
WalkMsg(j) == messages[Len(messages) - j + 1]
WalkCost(j) == Cost(WalkMsg(j).content, oracle[j + 2])

\* The cost of the newest k messages.
RECURSIVE SumWalk(_)
SumWalk(k) == IF k = 0 THEN 0 ELSE WalkCost(k) + SumWalk(k - 1)

\* The cost of the messages of s, the last of them being the first the walk
\* estimated.
RECURSIVE SeqCostFrom(_, _)
SeqCostFrom(s, i) ==
    IF i > Len(s) THEN 0
    ELSE Cost(s[i].content, oracle[Len(s) - i + 3]) + SeqCostFrom(s, i + 1)

SeqCost(s) == SeqCostFrom(s, 1)

\* The total of what is sent.
SentCost == SystemCost + SeqCost(result) + InputCost

\* C1 as stated: the total estimated token count of what the caller sends
\* (system prompt + returned history + user input, each costed estimate + 10)
\* never exceeds max_tokens, whatever the inputs.
C1_TotalWithinLimit ==
    tpc = "sent" => SentCost <= max_tokens

\* C1 amended: with the estimates the call obtained, the total sent is within
\* max_tokens exactly when the system prompt and the user input alone are;
\* when reserved >= max_tokens the history sent is empty, when reserved <
\* max_tokens the total leaves the 512 tokens of headroom free.
C1_TotalWithinLimitWhenInputFits ==
    tpc = "sent" =>
        /\ payload = <<[role |-> "system", content |-> SYSTEM_PROMPT]>> \o result
                     \o <<[role |-> "user", content |-> user_input]>>
        /\ (SentCost <= max_tokens) <=> (SystemCost + InputCost <= max_tokens)
        /\ Available <= 0 => Len(payload) = 2
        /\ Available > 0 => SentCost <= max_tokens - 512

C1_Witness ==
    /\ tpc = "sent"
    /\ Len(payload) > 2
    /\ Len(payload) < Len(messages) + 2
    /\ SentCost <= max_tokens

\* C2 as stated: for every input the returned messages cost at most
\* available in total.
C2_SumWithinAvailable ==
    tpc = "returned" => SeqCost(result) <= Available

\* C2 amended: the returned messages cost at most max(available, 0) in total
\* (available may be negative, and then nothing is returned), and during the
\* backward walk the running total current_tokens is the cost of the messages
\* taken so far and never exceeds available.
C2_SumWithinAvailableOrEmpty ==
    /\ tpc = "returned" => SeqCost(result) <= MaxOf({Available, 0})
    /\ tpc \in {"loop", "returned"} /\ Available > 0 =>
           /\ available_tokens = Available
           /\ current_tokens = SeqCost(truncated_messages)
           /\ current_tokens <= Available

C2_Witness ==
    /\ tpc = "returned"
    /\ Walked >= 2
    /\ current_tokens > 0
    /\ current_tokens + WalkCost(Walked) > Available
    /\ oracle[Walked + 2] # oracle[Walked + 1]

\* C3: the walk's list, and the returned sequence, is always the last k
\* messages of the input history, unchanged and in the input's order.
C3_ResultIsSuffix ==
    /\ tpc = "loop" => truncated_messages = SubSeq(messages, idx + 1, Len(messages))
    /\ Returned => \E k \in 0..Len(messages) : result = Suffix(messages, k)

C3_Witness ==
    /\ tpc = "returned"
    /\ Len(result) = 2
    /\ Len(messages) = 3
    /\ result[1] # result[2]
    /\ messages[1] # result[1]

\* C4: when available > 0 the result is the longest trailing suffix whose
\* cost is <= available: the walk stops at the first message that does not
\* fit and takes none older; with [A(50), B(30), C(200)], available = 100
\* gives [] although A and B would fit, and available = 250 gives [B, C].
C4_GreedyLongestSuffix ==
    /\ tpc = "returned" /\ Available > 0 =>
           LET K == MaxOf({k \in 0..Walked : SumWalk(k) <= Available})
           IN  /\ result = Suffix(messages, K)
               /\ K = Len(messages) \/ SumWalk(K + 1) > Available
    /\ tpc = "returned" /\ messages = <<MsgA, MsgB, MsgC>>
           /\ user_input = EndOfText /\ ~oracle[1] =>
           /\ \A raised \in BOOLEAN :
                  /\ Cost(TextA, raised) = 50
                  /\ Cost(TextB, raised) = 30
                  /\ Cost(TextC, raised) = 200
           /\ max_tokens = 641 => Available = 100 /\ result = <<>>
           /\ max_tokens = 791 => Available = 250 /\ result = <<MsgB, MsgC>>

C4_Witness ==
    /\ tpc = "returned"
    /\ messages = <<MsgA, MsgB, MsgC>>
    /\ user_input = EndOfText
    /\ ~oracle[1]
    /\ max_tokens = 641
    /\ Available = 100
    /\ result = <<>>
    /\ Cost(TextA, FALSE) + Cost(TextB, FALSE) <= Available

\* C5: whenever reserved >= max_tokens (available = 0 exactly, zero and
\* negative max_tokens included) the call returns the empty sequence at
\* once, for any history.
C5_EmptyOnExhaustion ==
    tpc # "call" /\ SystemCost + InputCost + 512 >= max_tokens =>
        Returned /\ result = <<>> /\ Walked = 0

C5_Witness ==
    /\ tpc = "returned"
    /\ Available = 0
    /\ max_tokens > 0
    /\ Len(messages) = MaxHist
    /\ result = <<>>

\* A second call on the same history and input in which the tokenizer does
\* as it likes.
SecondCalls == Oracles(Len(messages))

\* The second calls in which the tokenizer raises on the estimates this call
\* made exactly where it raised in this call (the vocabulary being the same,
\* both calls then obtain the same estimates).
SecondCallsSameOutcomes ==
    {o \in SecondCalls :
        \A i \in DOMAIN oracle :
            o[i] = oracle[i]}

\* C6 as stated: for the same history and user input, a call with a smaller
\* max_tokens returns a suffix of (so no more messages than) a call with a
\* larger one.
C6_Monotone ==
    tpc = "returned" =>
        \A m \in MaxTokenValues, o \in SecondCalls :
            /\ m <= max_tokens =>
                   IsSuffix(truncate_message_history(messages, m, user_input, o), result)
            /\ m >= max_tokens =>
                   IsSuffix(result, truncate_message_history(messages, m, user_input, o))

\* C6 amended: for the same history and user input, a call with a smaller
\* max_tokens returns a suffix of (so no more messages than) a call with a
\* larger one, provided the tokenizer raises in both calls on the same of the
\* estimates both make.
C6_MonotoneSameOutcomes ==
    tpc = "returned" =>
        \A o \in SecondCallsSameOutcomes, m \in MaxTokenValues :
            LET second == truncate_message_history(messages, m, user_input, o)
            IN  /\ m <= max_tokens => IsSuffix(second, result)
                /\ m >= max_tokens => IsSuffix(result, second)

C6_Witness ==
    /\ tpc = "returned"
    /\ \E m \in MaxTokenValues, o \in SecondCallsSameOutcomes :
           /\ m < max_tokens
           /\ Len(truncate_message_history(messages, m, user_input, o)) >= 1
           /\ Len(truncate_message_history(messages, m, user_input, o)) < Len(result)

\* The texts one call estimates.
EstimatedTexts == {SYSTEM_PROMPT, user_input} \cup {messages[i].content : i \in 1..Len(messages)}

\* C7: estimate_tokens always returns a natural number; when the tokenizer
\* is unavailable or raises it returns the length of the text divided by 4,
\* rounded down (1 for 4 characters, 0 for fewer), and the call goes on with
\* that value.
C7_EstimateFallback ==
    /\ tpc = "call" =>
       \A t \in EstimatedTexts, raised \in BOOLEAN :
           LET estimate == estimate_tokens(t, raised)
           IN  /\ estimate \in Nat
               /\ raised \/ HasSpecialToken(t) =>
                      /\ Encode(t, raised).raised
                      /\ 4 * estimate <= Len(t)
                      /\ Len(t) < 4 * estimate + 4
                      /\ Len(t) = 4 => estimate = 1
                      /\ Len(t) < 4 => estimate = 0
    /\ tpc # "call" =>
           /\ oracle[1] =>
                  \E s \in 0..Len(SYSTEM_PROMPT) :
                      /\ 4 * s <= Len(SYSTEM_PROMPT) /\ Len(SYSTEM_PROMPT) < 4 * s + 4
                      /\ system_tokens = s + 10
           /\ HasSpecialToken(user_input) => oracle[2]
           /\ oracle[2] =>
                  \E u \in 0..Len(user_input) :
                      /\ 4 * u <= Len(user_input) /\ Len(user_input) < 4 * u + 4
                      /\ user_input_tokens = u + 10
           /\ available_tokens = max_tokens - system_tokens - user_input_tokens - 512

C7_Witness ==
    /\ tpc = "loop"
    /\ user_input = EndOfText
    /\ oracle = <<FALSE, TRUE>>
    /\ system_tokens = 6 + 10
    /\ user_input_tokens = 3 + 10
    /\ available_tokens = 791 - 16 - 13 - 512

-----------------------------------------------------------------------------
(* Properties of the web application (Spec) *)

\* The history C8 describes for the fetched rows (newest first): the row
\* being processed is left out when it is the newest one, and nothing else.
ExpectedHistory(rows, cur_id) ==
    LET kept  == IF rows # <<>> /\ rows[1].id = cur_id THEN Tail(rows) ELSE rows
        first == SubSeq(kept, 1, MinOf2(HISTORY_LIMIT, Len(kept)))
    IN  [i \in 1..Len(first) |->
            [role    |-> IF first[Len(first) - i + 1].role = "LLM"
                         THEN "assistant" ELSE first[Len(first) - i + 1].role,
             content |-> first[Len(first) - i + 1].message]]

\* C8: the history handed to truncate_message_history is the most recent
\* stored rows, oldest first, at most 20, with only the row of the input
\* being processed left out when it is the newest; an earlier row with the
\* same text is kept.
C8_HistoryDropsOnlyCurrentRow ==
    \A p \in Procs :
        req[p].pc = "model_info" =>
            req[p].message_history = ExpectedHistory(req[p].rows, req[p].cur_id)

\* The LLM rows stored for the user row with this id.
RepliesTo(id) ==
    {j \in 1..Len(chat_messages) :
        chat_messages[j].role = "LLM" /\ chat_messages[j].reply_to = id}

\* C9: /process handles only a user message that has no LLM response yet, so
\* no user message ever gets more than one LLM row.
C9_AtMostOneReplyPerUserMessage ==
    /\ \A i \in UserRows(chat_messages) :
           Cardinality(RepliesTo(chat_messages[i].id)) <= 1
    /\ \A p \in Procs :
           req[p].pc = "query" => RepliesTo(req[p].cur_id) = {}

InQuery(r) == r.pc \in {"query", "model_info", "post", "save"}

\* "timeout" occurs in the text, whatever the case of its letters.
MentionsTimeout(e) ==
    \E i \in 1..Len(e) :
        /\ i + 6 <= Len(e)
        /\ e[i] \in {"t", "T"} /\ e[i + 1] \in {"i", "I"} /\ e[i + 2] \in {"m", "M"}
        /\ e[i + 3] \in {"e", "E"} /\ e[i + 4] \in {"o", "O"} /\ e[i + 5] \in {"u", "U"}
        /\ e[i + 6] \in {"t", "T"}

\* C10: a failure inside query_llm is answered with the timed-out string when
\* the error text contains "timeout" and the unavailable string otherwise,
\* process_llm still answers 200, and the step leaves chat_messages as it
\* was; an LLM row appears only in the step that stores a model's response.
C10_FailureLeavesTableAlone ==
    [][/\ \A p \in Procs :
              InQuery(req[p]) /\ req'[p].pc = "responded"
                  /\ req'[p].ret.kind # "response" =>
                      /\ chat_messages' = chat_messages
                      /\ req'[p].status = 200
                      /\ req'[p].ret.kind = IF MentionsTimeout(req'[p].error)
                                            THEN "timed_out" ELSE "unavailable"
                      /\ req'[p].ret.kind = "unavailable" =>
                             req'[p].ret.text = req'[p].error
       /\ chat_messages' # chat_messages =>
              \/ /\ req' = req
                 /\ \E text \in ChatInputs :
                        /\ post.pc = "idle"
                        /\ post'.pc = "render"
                        /\ chat_messages' =
                               Append(chat_messages,
                                      [id |-> Len(chat_messages) + 1, role |-> "user",
                                       message |-> text, reply_to |-> 0])
              \/ /\ post' = post
                 /\ \E p \in Procs :
                        /\ req[p].pc = "save"
                        /\ req'[p].ret =
                               [kind |-> "response", text |-> req[p].llm_response]
                        /\ chat_messages' =
                               Append(chat_messages,
                                      [id |-> Len(chat_messages) + 1, role |-> "LLM",
                                       message |-> req[p].llm_response,
                                       reply_to |-> req[p].cur_id])]_vars

C10_Witness ==
    \E p \in Procs :
        /\ req[p].pc = "responded"
        /\ req[p].ret.kind = "timed_out"
        /\ ~Contains(req[p].error, TIMEOUT)
        /\ Len(chat_messages) = 2
        /\ chat_messages[2].role = "LLM"

=============================================================================
